---- MODULE Spec2Model ----
(***************************************************************************)
(* Construction of ChunkedArray columns from sequential and parallel       *)
(* producers: polars-core/src/chunked_array/upstream_traits.rs.            *)
(*                                                                         *)
(* One run of the model is one call of one construction entry point (op),  *)
(* under one build configuration (performant), on one input (items, hint). *)
(***************************************************************************)
EXTENDS Integers, Sequences, FiniteSets

VARIABLES
    op,          \* the entry point that is called
    performant,  \* cfg(feature = "performant") of the build
    items,       \* the elements the producer yields, in order
    hint,        \* the producer's size_hint(): <<lo, hi>>, hi an Option
    adapter,     \* the caller wrapped the producer in TrustMyLength
    pc,          \* position in the entry point
    path,        \* how the physical array was built: "none", "trusted", "safe"
    trust,       \* what the length-trusted construction relied on
    declared,    \* the length handed to the length-trusted constructor
    nodes,       \* parallel collection: the fold / reduce tree frontier, in source order
    cnt,         \* nested collection: missing entries counted so far
    itpos,       \* nested collection: elements taken from the iterator so far
    owned_v,     \* nested collection: the first present element
    builder,     \* nested collection: the list builder
    result,      \* the outcome: [status, nonull, ca]
    orig,        \* round trip: the column the round trip started from
    vec,         \* round trip: the Vec<Option<_>> the column was converted to
    round        \* round trip: round trips done

vars == <<op, performant, items, hint, adapter, pc, path, trust, declared, nodes,
          cnt, itpos, owned_v, builder, result, orig, vec, round>>

(***************************************************************************)
(* Bounds of the model.                                                    *)
(***************************************************************************)
MaxLen == 3      \* longest producer
MaxParLen == 2   \* longest parallel source
MaxParts == 3    \* most partitions a parallel source is split into
MaxRounds == 2   \* round trips applied to a built column

(***************************************************************************)
(* Option<T>: None is the empty tuple, Some(v) the one-element tuple.      *)
(***************************************************************************)
None == <<>>
Some(v) == <<v>>
IsSome(o) == Len(o) = 1
Unwrap(o) == o[1]

SeqsUpTo(S, n) == UNION {[1..k -> S] : k \in 0..n}

RECURSIVE SumSeq(_)
SumSeq(s) == IF s = <<>> THEN 0 ELSE Head(s) + SumSeq(Tail(s))

RECURSIVE Flatten(_)
Flatten(ss) == IF ss = <<>> THEN <<>> ELSE Head(ss) \o Flatten(Tail(ss))

(***************************************************************************)
(* Element values.  T::Native is modelled by two values, one of them       *)
(* T::default(), which is what a missing slot of a primitive buffer holds. *)
(* A str is the sequence of its bytes; the empty str is not a missing str. *)
(***************************************************************************)
NativeDefault == 0
NativeVals == {0, 1}
BoolVals == {FALSE, TRUE}
StrVals == {<<>>, <<8, 9>>}

OptOf(S) == {None} \cup {Some(v) : v \in S}

(***************************************************************************)
(* Physical arrays.  A PrimitiveArray / BooleanArray is a values buffer    *)
(* and a validity bitmap; len is the number of slots written.              *)
(***************************************************************************)
EmptyArr == [len |-> 0, values |-> <<>>, validity |-> <<>>]

\* one append of the incremental (safe) construction
ArrPush(arr, o, default) ==
    [len      |-> arr.len + 1,
     values   |-> Append(arr.values, IF IsSome(o) THEN Unwrap(o) ELSE default),
     validity |-> Append(arr.validity, IsSome(o))]

RECURSIVE ArrExtend(_, _, _)
ArrExtend(arr, its, default) ==
    IF its = <<>> THEN arr
    ELSE ArrExtend(ArrPush(arr, Head(its), default), Tail(its), default)

\* PrimitiveArray::from_iter(iter): the safe incremental construction
PrimitiveArray_from_iter(its) == ArrExtend(EmptyArr, its, NativeDefault)

\* PrimitiveArray::from_trusted_len_iter(iter), the length-trusted bulk
\* constructor: storage of exactly `upper` slots is allocated (zeroed values,
\* zeroed validity bits) and the producer is consumed in one pass that writes
\* the i-th element to slot i without a capacity check.  len is the number of
\* elements realized.  A slot the producer did not reach keeps its zeroes; a
\* write past slot `upper` does not land in the array (WritesOutOfBounds).
from_trusted_len_iter(its, upper) ==
    LET n == Len(its)
    IN [len      |-> n,
        values   |-> [i \in 1..upper |->
                        IF i <= n /\ IsSome(its[i]) THEN Unwrap(its[i]) ELSE NativeDefault],
        validity |-> [i \in 1..upper |-> i <= n /\ IsSome(its[i])]]

\* the unchecked pass writes an element past the end of the allocated storage
WritesOutOfBounds(its, upper) == Len(its) > upper

\* BooleanArray::from_iter(iter)
BooleanArray_from_iter(its) == ArrExtend(EmptyArr, its, FALSE)

(***************************************************************************)
(* LargeStringArray: a byte buffer, the offsets of the elements in it and  *)
(* a validity bitmap.  A missing element has an empty range.               *)
(***************************************************************************)
EmptyStrArr == [len |-> 0, offsets |-> <<0>>, data |-> <<>>, validity |-> <<>>]

StrPush(arr, o) ==
    LET bytes == IF IsSome(o) THEN Unwrap(o) ELSE <<>>
    IN [len      |-> arr.len + 1,
        offsets  |-> Append(arr.offsets, Len(arr.data) + Len(bytes)),
        data     |-> arr.data \o bytes,
        validity |-> Append(arr.validity, IsSome(o))]

RECURSIVE StrExtend(_, _)
StrExtend(arr, its) ==
    IF its = <<>> THEN arr ELSE StrExtend(StrPush(arr, Head(its)), Tail(its))

\* LargeStringArray::from_iter(iter) over Option<Ptr>
LargeStringArray_from_iter(its) == StrExtend(EmptyStrArr, its)

\* LargeStringArray::from_iter_values(iter) over Ptr: every element is present
LargeStringArray_from_iter_values(its) ==
    StrExtend(EmptyStrArr, [i \in 1..Len(its) |-> Some(its[i])])

\* the element of a string (or list) array at slot i (1-based): the range of
\* the data buffer between its offsets
StrValueAt(arr, i) ==
    SubSeq(arr.data, arr.offsets[i] + 1, arr.offsets[i + 1])

(***************************************************************************)
(* ChunkedArray: a name, a logical type and the chunks, with the cached    *)
(* per-chunk length index.                                                 *)
(***************************************************************************)
new_from_chunks(name, dtype, chunks) ==
    [name     |-> name,
     dtype    |-> dtype,
     chunks   |-> chunks,
     chunk_id |-> [i \in 1..Len(chunks) |-> chunks[i].len]]

\* ChunkedArray::new_from_aligned_vec(name, av): the values as they are, no
\* validity bitmap (every slot is valid)
new_from_aligned_vec(name, av) ==
    new_from_chunks(name, "Primitive",
        << [len      |-> Len(av),
            values   |-> av,
            validity |-> [i \in 1..Len(av) |-> TRUE]] >>)

\* impl Default for ChunkedArray<T>
ChunkedArray_default ==
    [name |-> "default", dtype |-> "Null", chunks |-> <<>>, chunk_id |-> <<>>]

ca_len(ca) == SumSeq([i \in 1..Len(ca.chunks) |-> ca.chunks[i].len])

ChunkNulls(arr) == Cardinality({i \in 1..arr.len : ~arr.validity[i]})

null_count(ca) == SumSeq([i \in 1..Len(ca.chunks) |-> ChunkNulls(ca.chunks[i])])

\* the logical element of a single chunk at slot i: None when the validity bit
\* is clear, Some(value) otherwise
ChunkGet(arr, dtype, i) ==
    IF ~arr.validity[i] THEN None
    ELSE IF dtype \in {"Utf8", "List<Boolean>", "List<Int32>"} THEN Some(StrValueAt(arr, i))
    ELSE Some(arr.values[i])

\* ca.into_iter(): the logical elements of all chunks, in order
RECURSIVE ca_into_iter_from(_, _)
ca_into_iter_from(ca, c) ==
    IF c > Len(ca.chunks) THEN <<>>
    ELSE [i \in 1..ca.chunks[c].len |-> ChunkGet(ca.chunks[c], ca.dtype, i)]
         \o ca_into_iter_from(ca, c + 1)

ca_into_iter(ca) == ca_into_iter_from(ca, 1)

(***************************************************************************)
(* Outcomes of an entry point.                                             *)
(***************************************************************************)
\* oob: memory outside the storage of the array was written during the call
NoResult == [status |-> "none", nonull |-> FALSE, ca |-> ChunkedArray_default, oob |-> FALSE]
Ok(ca) == [status |-> "ok", nonull |-> FALSE, ca |-> ca, oob |-> FALSE]
\* the call does not return: assert_eq!, unwrap or panic! aborts the operation
Panic == [status |-> "panic", nonull |-> FALSE, ca |-> ChunkedArray_default, oob |-> FALSE]
\* NoNull::new(ca)
NoNull_new(ca) == [status |-> "ok", nonull |-> TRUE, ca |-> ca, oob |-> FALSE]
\* the process is ended by the memory fault, no assertion is reached
Abort == [status |-> "abort", nonull |-> FALSE, ca |-> ChunkedArray_default, oob |-> FALSE]
\* the call wrote out of bounds on its way to the outcome r
Overrun(r) == [r EXCEPT !.oob = TRUE]
\* A write out of bounds is undefined behaviour: the memory after the storage
\* is overwritten, and the call then either reaches what follows in the code
\* or the process is ended on the spot.
UndefinedOutcomes(r) == IF r.oob THEN {r, Overrun(Abort)} ELSE {r}

\* iter.size_hint() is (a, Some(b)) with a = b
HintExact(h) == IsSome(h[2]) /\ h[1] = Unwrap(h[2])

(***************************************************************************)
(* FromIterator                                                            *)
(***************************************************************************)
\* mutant of from_iter_primitive_path: the guard `if a == b` is left out
from_iter_primitive_path_anyUpper(h, perf) ==
    IF IsSome(h[2]) /\ perf THEN "trusted" ELSE "safe"

\* mutant of from_iter_primitive_path: the feature gate is left out
from_iter_primitive_path_ungated(h, perf) ==
    IF HintExact(h) THEN "trusted" ELSE "safe"

\* which construction FromIterator<Option<T::Native>> for ChunkedArray<T> uses
from_iter_primitive_path(h, perf) ==
    IF HintExact(h) /\ perf THEN "trusted" ELSE "safe"

\* mutant of from_iter_primitive: the incremental construction is fed the
\* present elements alone
from_iter_primitive_dropsMissing(its, h, perf) ==
    IF from_iter_primitive_path(h, perf) = "trusted"
    THEN LET arr == from_trusted_len_iter(its, Unwrap(h[2]))
         IN IF arr.len # h[1] THEN Panic
            ELSE Ok(new_from_chunks("", "Primitive", <<arr>>))
    ELSE Ok(new_from_chunks("", "Primitive",
                            <<PrimitiveArray_from_iter(SelectSeq(its, IsSome))>>))

\* impl FromIterator<Option<T::Native>> for ChunkedArray<T>
from_iter_primitive(its, h, perf) ==
    IF from_iter_primitive_path(h, perf) = "trusted"
    THEN LET arr == from_trusted_len_iter(its, Unwrap(h[2]))
             r == IF arr.len # h[1]                 \* assert_eq!(arr.len(), a)
                  THEN Panic
                  ELSE Ok(new_from_chunks("", "Primitive", <<arr>>))
         IN IF WritesOutOfBounds(its, Unwrap(h[2])) THEN Overrun(r) ELSE r
    ELSE Ok(new_from_chunks("", "Primitive", <<PrimitiveArray_from_iter(its)>>))

\* impl FromIterator<T::Native> for NoNull<ChunkedArray<T>>: av.extend(iter)
AlignedVec_extend(av, its) == av \o its

\* mutant of from_iter_nonull_primitive: the first element is taken
\* unconditionally before the rest is collected
from_iter_nonull_primitive_unwrapsFirst(its) ==
    IF its = <<>> THEN Panic
    ELSE NoNull_new(new_from_aligned_vec("", AlignedVec_extend(<<Head(its)>>, Tail(its))))

from_iter_nonull_primitive(its) ==
    NoNull_new(new_from_aligned_vec("", AlignedVec_extend(<<>>, its)))

\* impl FromIterator<Option<bool>> for ChunkedArray<BooleanType>
from_iter_opt_bool(its) ==
    Ok(new_from_chunks("", "Boolean", <<BooleanArray_from_iter(its)>>))

\* impl FromIterator<bool> for BooleanChunked: iter.map(Some)
from_iter_bool(its) ==
    Ok(new_from_chunks("", "Boolean",
        <<BooleanArray_from_iter([i \in 1..Len(its) |-> Some(its[i])])>>))

\* impl FromIterator<bool> for NoNull<BooleanChunked>
from_iter_nonull_bool(its) == NoNull_new(from_iter_bool(its).ca)

\* impl FromIterator<Option<Ptr>> for Utf8Chunked
from_iter_opt_utf8(its) ==
    Ok(new_from_chunks("", "Utf8", <<LargeStringArray_from_iter(its)>>))

\* impl FromIterator<Ptr> for Utf8Chunked
from_iter_utf8(its) ==
    Ok(new_from_chunks("", "Utf8", <<LargeStringArray_from_iter_values(its)>>))

(***************************************************************************)
(* Nested (list) collection.  A Series is its dtype and its values.  The   *)
(* list builder keeps the child values, the offsets of the sub-columns in  *)
(* them and the validity of each slot.                                     *)
(***************************************************************************)
SeriesOf(dtype) ==
    IF dtype = "Boolean"
    THEN {[dtype |-> "Boolean", values |-> <<TRUE, FALSE, TRUE>>],
          [dtype |-> "Boolean", values |-> <<>>]}
    ELSE {[dtype |-> "Int32", values |-> <<1, 2>>],
          [dtype |-> "Int32", values |-> <<3>>]}

ListOf(inner) == IF inner = "Boolean" THEN "List<Boolean>" ELSE "List<Int32>"

NoSeries == [dtype |-> "Null", values |-> <<>>]

\* crate::utils::get_iter_capacity(&it): the upper bound, else the lower one
get_iter_capacity(h) ==
    IF IsSome(h[2]) THEN Unwrap(h[2]) ELSE IF h[1] = 0 THEN 1024 ELSE h[1]

\* get_list_builder(dtype, value_capacity, list_capacity, name)
get_list_builder(dtype, value_capacity, list_capacity, name) ==
    [name |-> name, dtype |-> dtype,
     value_capacity |-> value_capacity, list_capacity |-> list_capacity,
     arr |-> EmptyStrArr]

NoBuilder == get_list_builder("Null", 0, 0, "")

\* builder.append_series(s)
append_series(b, s) == [b EXCEPT !.arr = StrPush(b.arr, Some(s.values))]
\* builder.append_opt_series(None), builder.append_null()
append_null(b) == [b EXCEPT !.arr = StrPush(b.arr, None)]
\* builder.finish()
list_finish(b) == new_from_chunks(b.name, ListOf(b.dtype), <<b.arr>>)

\* size_hint() of a slice / Vec iterator of which k elements were taken
RestHint(its, k) == <<Len(its) - k, Some(Len(its) - k)>>

\* impl FromIterator<Ptr> for ListChunked
RECURSIVE AppendAllSeries(_, _)
AppendAllSeries(b, its) ==
    IF its = <<>> THEN b ELSE AppendAllSeries(append_series(b, Head(its)), Tail(its))

\* mutant of from_iter_list: the first sub-column only fixes the element type
\* and is not appended
from_iter_list_dropsFirst(its) ==
    IF its = <<>> THEN Panic
    ELSE LET capacity == get_iter_capacity(RestHint(its, 0))
             v == Head(its)
             b0 == get_list_builder(v.dtype, capacity * 5, capacity, "collected")
         IN Ok(list_finish(AppendAllSeries(b0, Tail(its))))

from_iter_list(its) ==
    IF its = <<>> THEN Panic                       \* it.next().unwrap()
    ELSE LET capacity == get_iter_capacity(RestHint(its, 0))
             v == Head(its)
             b0 == get_list_builder(v.dtype, capacity * 5, capacity, "collected")
         IN Ok(list_finish(AppendAllSeries(append_series(b0, v), Tail(its))))

(***************************************************************************)
(* FromParallelIterator                                                    *)
(***************************************************************************)
vec_push(v, elem) == Append(v, elem)

LinkedList_new == <<>>

as_list(item) == Append(LinkedList_new, item)

\* mutant of list_append: the second list is linked in front of the first
list_append_swapped(list1, list2) == list2 \o list1

\* mutant of list_append: the second list takes the segments of the first and
\* the emptied first list is returned
list_append_wrongReceiver(list1, list2) == <<>>

\* mutant of list_append: the merged list is one segment holding the elements
\* of both lists
list_append_oneSegment(list1, list2) == <<Flatten(list1 \o list2)>>

list_append(list1, list2) == list1 \o list2

\* mutant of get_capacity_from_par_results: the segments are counted, not
\* their elements
get_capacity_from_par_results_countsSegments(ll) == Len(ll)

get_capacity_from_par_results(ll) == SumSeq([i \in 1..Len(ll) |-> Len(ll[i])])

\* TrustMyLength::new(iter, len): the elements of iter, size_hint (len, Some(len))
TrustMyLength_new(its, len) == [its |-> its, hint |-> <<len, Some(len)>>]

\* vectors.into_iter().flatten()
into_iter_flatten(ll) == Flatten(ll)

\* mutant of from_par_iter_nonull: the default value is taken for a missing one
from_par_iter_nonull_defaultIsNone(vectors) ==
    LET capacity == get_capacity_from_par_results(vectors)
        tml == TrustMyLength_new(into_iter_flatten(vectors), capacity)
        iter == [i \in 1..Len(tml.its) |->
                    IF tml.its[i] = NativeDefault THEN None ELSE Some(tml.its[i])]
        arr == from_trusted_len_iter(iter, Unwrap(tml.hint[2]))
    IN NoNull_new(new_from_chunks("", "Primitive", <<arr>>))

\* impl FromParallelIterator<T::Native> for NoNull<ChunkedArray<T>>, from the
\* collected linked list on
from_par_iter_nonull(vectors) ==
    LET capacity == get_capacity_from_par_results(vectors)
        tml == TrustMyLength_new(into_iter_flatten(vectors), capacity)
        iter == [i \in 1..Len(tml.its) |-> Some(tml.its[i])]
        arr == from_trusted_len_iter(iter, Unwrap(tml.hint[2]))
        r == NoNull_new(new_from_chunks("", "Primitive", <<arr>>))
    IN IF WritesOutOfBounds(iter, Unwrap(tml.hint[2])) THEN Overrun(r) ELSE r

\* impl FromParallelIterator<Option<T::Native>> for ChunkedArray<T>
from_par_iter_primitive(vectors) ==
    LET capacity == get_capacity_from_par_results(vectors)
        tml == TrustMyLength_new(into_iter_flatten(vectors), capacity)
        arr == from_trusted_len_iter(tml.its, Unwrap(tml.hint[2]))
        r == Ok(new_from_chunks("", "Primitive", <<arr>>))
    IN IF WritesOutOfBounds(tml.its, Unwrap(tml.hint[2])) THEN Overrun(r) ELSE r

\* BooleanChunkedBuilder::new(name, capacity), append_value, finish
BooleanChunkedBuilder_new(name, capacity) ==
    [name |-> name, capacity |-> capacity, arr |-> EmptyArr]
append_value(b, v) == [b EXCEPT !.arr = ArrPush(b.arr, Some(v), FALSE)]
bool_finish(b) == new_from_chunks(b.name, "Boolean", <<b.arr>>)

RECURSIVE AppendValues(_, _)
AppendValues(b, vals) ==
    IF vals = <<>> THEN b ELSE AppendValues(append_value(b, Head(vals)), Tail(vals))

RECURSIVE AppendVectors(_, _)
AppendVectors(b, ll) ==
    IF ll = <<>> THEN b ELSE AppendVectors(AppendValues(b, Head(ll)), Tail(ll))

\* mutant of from_par_iter_bool: the collected vectors are appended last to first
from_par_iter_bool_reversed(vectors) ==
    LET capacity == get_capacity_from_par_results(vectors)
        rev == [i \in 1..Len(vectors) |-> vectors[Len(vectors) + 1 - i]]
    IN Ok(bool_finish(AppendVectors(BooleanChunkedBuilder_new("", capacity), rev)))

\* impl FromParallelIterator<bool> for BooleanChunked
from_par_iter_bool(vectors) ==
    LET capacity == get_capacity_from_par_results(vectors)
    IN Ok(bool_finish(AppendVectors(BooleanChunkedBuilder_new("", capacity), vectors)))

\* mutant of from_par_iter_utf8: one chunk per collected vector
from_par_iter_utf8_chunkPerVector(vectors) ==
    Ok(new_from_chunks("", "Utf8",
        [i \in 1..Len(vectors) |-> LargeStringArray_from_iter_values(vectors[i])]))

\* impl FromParallelIterator<Ptr> for Utf8Chunked
from_par_iter_utf8(vectors) ==
    Ok(new_from_chunks("", "Utf8",
        <<LargeStringArray_from_iter_values(into_iter_flatten(vectors))>>))

\* impl FromParallelIterator<Option<Ptr>> for Utf8Chunked
from_par_iter_opt_utf8(vectors) ==
    Ok(new_from_chunks("", "Utf8",
        <<LargeStringArray_from_iter(into_iter_flatten(vectors))>>))

(***************************************************************************)
(* From<&ChunkedArray> for Vec<Option<_>>                                  *)
(***************************************************************************)
\* mutant of vec_from_ca: the values buffer is read without the validity bitmap
vec_from_ca_ignoresValidity(ca) ==
    [i \in 1..ca.chunks[1].len |->
        IF ca.dtype = "Utf8" THEN Some(StrValueAt(ca.chunks[1], i))
        ELSE Some(ca.chunks[1].values[i])]

\* impl From<&ChunkedArray<T>> for Vec<Option<T::Native>>, From<&BooleanChunked>
\* and From<BooleanChunked> for Vec<Option<bool>>, From<&Utf8Chunked> for
\* Vec<Option<&str>>: ca.into_iter().collect()
vec_from_ca(ca) == ca_into_iter(ca)

\* s.to_string(): a new String holding the bytes of s
to_string(s) == [j \in 1..Len(s) |-> s[j]]

\* impl From<Utf8Chunked> for Vec<Option<String>>:
\* ca.into_iter().map(|opt| opt.map(|s| s.to_string())).collect()
vec_string_from_ca(ca) ==
    LET it == ca_into_iter(ca)
    IN [i \in 1..Len(it) |-> IF IsSome(it[i]) THEN Some(to_string(Unwrap(it[i]))) ELSE None]

(***************************************************************************)
(* The calls: entry points and their inputs.                               *)
(***************************************************************************)
SeqOps == {"seq_prim", "seq_nonull", "seq_opt_bool", "seq_bool", "seq_nonull_bool",
           "seq_opt_utf8", "seq_utf8", "list"}
ParOps == {"par_nonull", "par_prim", "par_bool", "par_utf8", "par_opt_utf8"}
NumericOps == {"seq_prim", "seq_nonull", "par_prim", "par_nonull"}
BoolOps == {"seq_opt_bool", "seq_bool", "seq_nonull_bool", "par_bool"}
Utf8Ops == {"seq_opt_utf8", "seq_utf8", "par_utf8", "par_opt_utf8"}
\* the calls whose column a From impl converts to a Vec<Option<_>>
RoundTripOps == NumericOps \cup BoolOps \cup Utf8Ops
\* the calls that reach FromIterator<Option<T::Native>> for ChunkedArray<T>
ReadsFeature == NumericOps

ItemsOf(o) ==
    CASE o = "seq_prim" -> SeqsUpTo(OptOf(NativeVals), MaxLen)
      [] o = "par_prim" -> SeqsUpTo(OptOf(NativeVals), MaxParLen)
      [] o = "seq_nonull" -> SeqsUpTo(NativeVals, MaxLen)
      [] o = "par_nonull" -> SeqsUpTo(NativeVals, MaxParLen)
      [] o = "seq_opt_bool" -> SeqsUpTo(OptOf(BoolVals), MaxLen)
      [] o \in {"seq_bool", "seq_nonull_bool"} -> SeqsUpTo(BoolVals, MaxLen)
      [] o = "par_bool" -> SeqsUpTo(BoolVals, MaxParLen)
      [] o = "seq_opt_utf8" -> SeqsUpTo(OptOf(StrVals), MaxLen)
      [] o = "par_opt_utf8" -> SeqsUpTo(OptOf({<<8, 9>>}), MaxParLen)
      [] o = "seq_utf8" -> SeqsUpTo(StrVals, MaxLen)
      [] o = "par_utf8" -> SeqsUpTo(StrVals, MaxParLen)
      [] o = "list" ->
            SeqsUpTo(SeriesOf("Boolean"), MaxLen) \cup SeqsUpTo(SeriesOf("Int32"), MaxLen)
      [] o = "list_opt" ->
            SeqsUpTo(OptOf(SeriesOf("Boolean")), MaxLen)
            \cup SeqsUpTo(OptOf(SeriesOf("Int32")), MaxLen)

\* the size hints a producer may report; a producer may report bounds that
\* its elements do not meet
Hints ==
    {<<lo, hi>> : lo \in 0..(MaxLen + 1),
                  hi \in {None} \cup {Some(b) : b \in 0..(MaxLen + 1)}}

HonestHint(its) == <<Len(its), Some(Len(its))>>

\* the root of the fold / reduce tree: the whole source, not yet split
FoldNode(at, src) == [kind |-> "fold", at |-> at, src |-> src, vec |-> <<>>, segs |-> <<>>]
ListNode(at, segs) == [kind |-> "list", at |-> at, src |-> <<>>, vec |-> <<>>, segs |-> segs]

Init ==
    /\ op \in SeqOps \cup ParOps \cup {"list_opt"}
    \* the feature is read by FromIterator<Option<T::Native>> alone
    /\ performant \in (IF op \in ReadsFeature THEN BOOLEAN ELSE {FALSE})
    /\ items \in ItemsOf(op)
    /\ IF op = "seq_prim"
       THEN /\ hint \in Hints
            /\ IsSome(hint[2]) => hint[1] <= Unwrap(hint[2])
            /\ adapter \in BOOLEAN
            /\ adapter => HintExact(hint)
       ELSE /\ hint = HonestHint(items)
            /\ adapter = FALSE
    /\ pc = IF op \in ParOps THEN "fold" ELSE IF op = "list_opt" THEN "scan" ELSE "start"
    /\ path = "none"
    /\ trust = "none"
    /\ declared = None
    /\ nodes = IF op \in ParOps THEN <<FoldNode(<<>>, items)>> ELSE <<>>
    /\ cnt = 0
    /\ itpos = 0
    /\ owned_v = NoSeries
    /\ builder = NoBuilder
    /\ result = NoResult
    /\ orig = ChunkedArray_default
    /\ vec = <<>>
    /\ round = 0

Finished(r) == IF r.status = "ok" THEN "done" ELSE "panic"

ParVars == <<nodes>>
ListVars == <<cnt, itpos, owned_v, builder>>
RoundVars == <<orig, vec, round>>
InputVars == <<op, performant, items, hint, adapter>>

(***************************************************************************)
(* Sequential collection: one action per entry point.                      *)
(***************************************************************************)
FromIterPrimitive ==
    /\ op = "seq_prim" /\ pc = "start"
    /\ \E r \in UndefinedOutcomes(from_iter_primitive(items, hint, performant)) :
       LET p == from_iter_primitive_path(hint, performant)
       IN /\ result' = r
          /\ pc' = Finished(r)
          /\ path' = p
          /\ trust' = IF p # "trusted" THEN "none"
                      ELSE IF adapter THEN "caller_TrustMyLength" ELSE "size_hint"
          /\ declared' = IF p = "trusted" THEN hint[2] ELSE None
    /\ UNCHANGED <<InputVars, ParVars, ListVars, RoundVars>>

SeqDone(r) ==
    /\ result' = r
    /\ pc' = Finished(r)
    /\ path' = "safe"
    /\ UNCHANGED <<trust, declared, InputVars, ParVars, ListVars, RoundVars>>

FromIterNoNullPrimitive ==
    /\ op = "seq_nonull" /\ pc = "start"
    /\ SeqDone(from_iter_nonull_primitive(items))

FromIterOptBool ==
    /\ op = "seq_opt_bool" /\ pc = "start"
    /\ SeqDone(from_iter_opt_bool(items))

FromIterBool ==
    /\ op = "seq_bool" /\ pc = "start"
    /\ SeqDone(from_iter_bool(items))

FromIterNoNullBool ==
    /\ op = "seq_nonull_bool" /\ pc = "start"
    /\ SeqDone(from_iter_nonull_bool(items))

FromIterOptUtf8 ==
    /\ op = "seq_opt_utf8" /\ pc = "start"
    /\ SeqDone(from_iter_opt_utf8(items))

FromIterUtf8 ==
    /\ op = "seq_utf8" /\ pc = "start"
    /\ SeqDone(from_iter_utf8(items))

FromIterList ==
    /\ op = "list" /\ pc = "start"
    /\ SeqDone(from_iter_list(items))

(***************************************************************************)
(* Nested collection of optional sub-columns, step by step.                *)
(***************************************************************************)
\* it.next() is Some(None): cnt += 1
ListScanMissing ==
    /\ op = "list_opt" /\ pc = "scan"
    /\ itpos < Len(items) /\ ~IsSome(items[itpos + 1])
    /\ cnt' = cnt + 1
    /\ itpos' = itpos + 1
    /\ UNCHANGED <<pc, path, trust, declared, owned_v, builder, result,
                   InputVars, ParVars, RoundVars>>

\* it.next() is Some(Some(val)): owned_v = val; break; then the builder is made
ListScanPresent ==
    /\ op = "list_opt" /\ pc = "scan"
    /\ itpos < Len(items) /\ IsSome(items[itpos + 1])
    /\ owned_v' = Unwrap(items[itpos + 1])
    /\ itpos' = itpos + 1
    /\ LET capacity == get_iter_capacity(RestHint(items, itpos + 1))
       IN builder' = get_list_builder(owned_v'.dtype, capacity * 5, capacity, "collected")
    /\ pc' = "fill"
    /\ UNCHANGED <<cnt, path, trust, declared, result, InputVars, ParVars, RoundVars>>

\* mutant of ListScanExhausted: an exhausted source yields an empty list column
ListScanExhausted_emptyColumn ==
    /\ op = "list_opt" /\ pc = "scan"
    /\ itpos = Len(items)
    /\ result' = Ok(list_finish(get_list_builder("Null", 0, 0, "collected")))
    /\ pc' = "done"
    /\ UNCHANGED <<path, trust, declared, ListVars, InputVars, ParVars, RoundVars>>

\* it.next() is None: panic!("Type of Series cannot be determined ...")
ListScanExhausted ==
    /\ op = "list_opt" /\ pc = "scan"
    /\ itpos = Len(items)
    /\ result' = Panic
    /\ pc' = "panic"
    /\ UNCHANGED <<path, trust, declared, ListVars, InputVars, ParVars, RoundVars>>

\* mutant of ListFillStep: the counted missing entries are dropped, not appended
ListFillStep_drops ==
    /\ op = "list_opt" /\ pc = "fill"
    /\ cnt > 0
    /\ cnt' = cnt - 1
    /\ UNCHANGED <<pc, path, trust, declared, itpos, owned_v, builder, result,
                   InputVars, ParVars, RoundVars>>

\* mutant of ListFillStep: the loop appends a marker and leaves cnt as it is
ListFillStep_noDecrement ==
    /\ op = "list_opt" /\ pc = "fill"
    /\ cnt > 0
    /\ builder' = append_null(builder)
    /\ UNCHANGED <<pc, path, trust, declared, cnt, itpos, owned_v, result,
                   InputVars, ParVars, RoundVars>>

\* while cnt > 0 { builder.append_opt_series(None); cnt -= 1 }
ListFillStep ==
    /\ op = "list_opt" /\ pc = "fill"
    /\ cnt > 0
    /\ builder' = append_null(builder)
    /\ cnt' = cnt - 1
    /\ UNCHANGED <<pc, path, trust, declared, itpos, owned_v, result,
                   InputVars, ParVars, RoundVars>>

\* mutant of ListAppendFirst: the first present element is appended without
\* waiting for the counted missing markers
ListAppendFirst_early ==
    /\ op = "list_opt" /\ pc = "fill"
    /\ builder' = append_series(builder, owned_v)
    /\ pc' = "rest"
    /\ UNCHANGED <<path, trust, declared, cnt, itpos, owned_v, result,
                   InputVars, ParVars, RoundVars>>

\* builder.append_series(&v)
ListAppendFirst ==
    /\ op = "list_opt" /\ pc = "fill"
    /\ cnt = 0
    /\ builder' = append_series(builder, owned_v)
    /\ pc' = "rest"
    /\ UNCHANGED <<path, trust, declared, cnt, itpos, owned_v, result,
                   InputVars, ParVars, RoundVars>>

\* for opt_s in it { ... }
ListRestStep ==
    /\ op = "list_opt" /\ pc = "rest"
    /\ itpos < Len(items)
    /\ builder' = IF IsSome(items[itpos + 1])
                  THEN append_series(builder, Unwrap(items[itpos + 1]))
                  ELSE append_null(builder)
    /\ itpos' = itpos + 1
    /\ UNCHANGED <<pc, path, trust, declared, cnt, owned_v, result,
                   InputVars, ParVars, RoundVars>>

\* builder.finish()
ListFinish ==
    /\ op = "list_opt" /\ pc = "rest"
    /\ itpos = Len(items)
    /\ result' = Ok(list_finish(builder))
    /\ pc' = "done"
    /\ path' = "safe"
    /\ UNCHANGED <<trust, declared, ListVars, InputVars, ParVars, RoundVars>>

(***************************************************************************)
(* Parallel collection: collect_into_linked_list as the fold / reduce tree *)
(* rayon runs, then the single-threaded build.  nodes is the frontier of   *)
(* the tree in source order; at is the position of a node in the tree.     *)
(***************************************************************************)
ReplaceAt(s, i, new) == SubSeq(s, 1, i - 1) \o new \o SubSeq(s, i + 1, Len(s))

\* the runtime splits a part of the source that no worker has started on
Split(i, k) ==
    /\ pc = "fold"
    /\ nodes[i].kind = "fold" /\ nodes[i].vec = <<>>
    /\ Len(nodes) < MaxParts
    /\ LET n == nodes[i]
       IN nodes' = ReplaceAt(nodes, i,
                      << FoldNode(Append(n.at, 0), SubSeq(n.src, 1, k)),
                         FoldNode(Append(n.at, 1), SubSeq(n.src, k + 1, Len(n.src))) >>)
    /\ UNCHANGED <<pc, path, trust, declared, result, InputVars, ListVars, RoundVars>>

\* .fold(Vec::new, vec_push): a worker pushes the next element of its part
FoldStep(i) ==
    /\ pc = "fold"
    /\ nodes[i].kind = "fold" /\ nodes[i].src # <<>>
    /\ nodes' = [nodes EXCEPT ![i] =
                    [@ EXCEPT !.vec = vec_push(@, Head(nodes[i].src)),
                              !.src = Tail(@)]]
    /\ UNCHANGED <<pc, path, trust, declared, result, InputVars, ListVars, RoundVars>>

\* .map(as_list) and the reduce folder of the part: list_append(identity, list)
FoldComplete(i) ==
    /\ pc = "fold"
    /\ nodes[i].kind = "fold" /\ nodes[i].src = <<>>
    /\ nodes' = [nodes EXCEPT ![i] =
                    ListNode(@.at, list_append(LinkedList_new, as_list(@.vec)))]
    /\ UNCHANGED <<pc, path, trust, declared, result, InputVars, ListVars, RoundVars>>

Siblings(a, b) ==
    /\ Len(a.at) > 0 /\ Len(a.at) = Len(b.at)
    /\ SubSeq(a.at, 1, Len(a.at) - 1) = SubSeq(b.at, 1, Len(b.at) - 1)
    /\ a.at[Len(a.at)] = 0 /\ b.at[Len(b.at)] = 1

\* .reduce(LinkedList::new, list_append): the two results of a split are merged
Reduce(i) ==
    /\ pc = "fold"
    /\ i < Len(nodes)
    /\ nodes[i].kind = "list" /\ nodes[i + 1].kind = "list"
    /\ Siblings(nodes[i], nodes[i + 1])
    /\ nodes' = ReplaceAt(SubSeq(nodes, 1, i) \o SubSeq(nodes, i + 2, Len(nodes)), i,
                    << ListNode(SubSeq(nodes[i].at, 1, Len(nodes[i].at) - 1),
                                list_append(nodes[i].segs, nodes[i + 1].segs)) >>)
    /\ UNCHANGED <<pc, path, trust, declared, result, InputVars, ListVars, RoundVars>>

Collected == pc = "fold" /\ Len(nodes) = 1 /\ nodes[1].kind = "list"

ParDone(r, p, t, d) ==
    /\ result' = r
    /\ pc' = Finished(r)
    /\ path' = p
    /\ trust' = t
    /\ declared' = d
    /\ UNCHANGED <<InputVars, ParVars, ListVars, RoundVars>>

FromParIterNoNull ==
    /\ op = "par_nonull" /\ Collected
    /\ ParDone(from_par_iter_nonull(nodes[1].segs), "trusted", "core_TrustMyLength",
               Some(get_capacity_from_par_results(nodes[1].segs)))

FromParIterPrimitive ==
    /\ op = "par_prim" /\ Collected
    /\ ParDone(from_par_iter_primitive(nodes[1].segs), "trusted", "core_TrustMyLength",
               Some(get_capacity_from_par_results(nodes[1].segs)))

FromParIterBool ==
    /\ op = "par_bool" /\ Collected
    /\ ParDone(from_par_iter_bool(nodes[1].segs), "safe", "none", None)

FromParIterUtf8 ==
    /\ op = "par_utf8" /\ Collected
    /\ ParDone(from_par_iter_utf8(nodes[1].segs), "safe", "none", None)

FromParIterOptUtf8 ==
    /\ op = "par_opt_utf8" /\ Collected
    /\ ParDone(from_par_iter_opt_utf8(nodes[1].segs), "safe", "none", None)

(***************************************************************************)
(* Round trip: a built numeric, boolean or text column is converted to a   *)
(* Vec<Option<_>>, and the Vec is collected again.                         *)
(***************************************************************************)
ToVec ==
    /\ op \in RoundTripOps /\ pc = "done"
    /\ round < MaxRounds
    /\ vec' \in IF op \in Utf8Ops
                THEN {vec_from_ca(result.ca), vec_string_from_ca(result.ca)}
                ELSE {vec_from_ca(result.ca)}
    /\ orig' = IF round = 0 THEN result.ca ELSE orig
    /\ pc' = "vec"
    /\ UNCHANGED <<round, path, trust, declared, result, InputVars, ParVars, ListVars>>

\* vec.into_iter().collect(): the size hint of a Vec's iterator is exact
Recollect ==
    /\ op \in RoundTripOps /\ pc = "vec"
    /\ LET h == HonestHint(vec)
           r == IF op \in BoolOps THEN from_iter_opt_bool(vec)
                ELSE IF op \in Utf8Ops THEN from_iter_opt_utf8(vec)
                ELSE from_iter_primitive(vec, h, performant)
           p == IF op \in NumericOps THEN from_iter_primitive_path(h, performant) ELSE "safe"
       IN /\ result' = r
          /\ pc' = Finished(r)
          /\ path' = p
          /\ trust' = IF p = "trusted" THEN "size_hint" ELSE "none"
          /\ declared' = IF p = "trusted" THEN h[2] ELSE None
    /\ round' = round + 1
    /\ UNCHANGED <<orig, vec, InputVars, ParVars, ListVars>>

Next ==
    \/ FromIterPrimitive
    \/ FromIterNoNullPrimitive
    \/ FromIterOptBool
    \/ FromIterBool
    \/ FromIterNoNullBool
    \/ FromIterOptUtf8
    \/ FromIterUtf8
    \/ FromIterList
    \/ ListScanMissing
    \/ ListScanPresent
    \/ ListScanExhausted
    \/ ListFillStep
    \/ ListAppendFirst
    \/ ListRestStep
    \/ ListFinish
    \/ \E i \in 1..Len(nodes) : \E k \in 0..Len(nodes[i].src) : Split(i, k)
    \/ \E i \in 1..Len(nodes) : FoldStep(i)
    \/ \E i \in 1..Len(nodes) : FoldComplete(i)
    \/ \E i \in 1..Len(nodes) : Reduce(i)
    \/ FromParIterNoNull
    \/ FromParIterPrimitive
    \/ FromParIterBool
    \/ FromParIterUtf8
    \/ FromParIterOptUtf8
    \/ ToVec
    \/ Recollect

Spec == Init /\ [][Next]_vars

(***************************************************************************)
(* Properties.                                                             *)
(***************************************************************************)
\* the logical content of a column: its elements as Options, in order
Content(ca) == ca_into_iter(ca)

\* a producer whose size hint is met by the elements it yields
Honest(its, h) ==
    /\ h[1] <= Len(its)
    /\ IsSome(h[2]) => Len(its) <= Unwrap(h[2])

\* the sequential collection of the same source, per parallel entry point
SequentialOf(o, its) ==
    CASE o = "par_prim" -> from_iter_primitive(its, HonestHint(its), performant)
      [] o = "par_nonull" -> from_iter_nonull_primitive(its)
      [] o = "par_bool" -> from_iter_bool(its)
      [] o = "par_utf8" -> from_iter_utf8(its)
      [] o = "par_opt_utf8" -> from_iter_opt_utf8(its)

\* C1: parallel collection is order-preserving: however the source is split
\* into contiguous parts (empty ones included), however the workers interleave
\* and whichever pairs are merged first, the column built from the flattened
\* merge result has the length and, at every index, the value or missing
\* marker of the sequential collection of the same source.
C1_ParallelOrderPreserving ==
    (op \in ParOps /\ pc = "done" /\ round = 0) =>
        LET s == SequentialOf(op, items)
        IN /\ result.status = "ok" /\ s.status = "ok"
           /\ ca_len(result.ca) = ca_len(s.ca)
           /\ \A i \in 1..ca_len(s.ca) : Content(result.ca)[i] = Content(s.ca)[i]

C1_Witness ==
    /\ op = "par_prim" /\ pc = "done" /\ round = 0
    /\ Len(nodes[1].segs) = 3
    /\ \E j \in 1..3 : nodes[1].segs[j] = <<>>
    /\ items = <<Some(1), None>>

\* C2: sequential collection of optional numeric values returns a column of
\* the length of the source whose element at every index is missing exactly
\* when the source element is missing and equals it otherwise; a producer with
\* an honest size hint always gets its column.
C2_SequentialCollection ==
    (op = "seq_prim" /\ round = 0) =>
        /\ pc = "done" =>
              /\ result.status = "ok"
              /\ ca_len(result.ca) = Len(items)
              /\ \A i \in 1..Len(items) :
                    /\ (Content(result.ca)[i] = None) <=> (items[i] = None)
                    /\ items[i] # None => Content(result.ca)[i] = items[i]
        /\ Honest(items, hint) => pc # "panic"

C2_Witness ==
    /\ op = "seq_prim" /\ pc = "done" /\ round = 0
    /\ items = <<Some(0), None, Some(1)>>
    /\ path = "safe"

\* the source of a nested collection holds no present element
AllMissing(its) == \A i \in 1..Len(its) : ~IsSome(its[i])

MissingCount(its) == Cardinality({i \in 1..Len(its) : ~IsSome(its[i])})

\* C3 as stated: a nested collection whose source is exhausted with no present
\* element hands a recoverable, typed error back to the caller and does not
\* abort the operation.
C3_Original ==
    (op = "list_opt" /\ AllMissing(items) /\ pc \notin {"scan"}) =>
        result.status = "error"

\* C3, amended: a nested collection whose source is exhausted with no present
\* element (all missing, or empty) panics; no column is produced and no error
\* value is returned.
C3_AllMissingPanics ==
    (op = "list_opt" /\ AllMissing(items)) =>
        /\ pc \in {"scan", "panic"}
        /\ (pc = "scan" /\ itpos = Len(items)) => ENABLED ListScanExhausted
        /\ pc = "panic" => (result.status = "panic" /\ result.ca = ChunkedArray_default)
        /\ result.status # "ok"

C3_Witness ==
    /\ op = "list_opt" /\ pc = "panic"
    /\ Len(items) = 2 /\ AllMissing(items) /\ cnt = 2
    /\ result.status = "panic"

\* C4: a nested collection whose source has a present element returns a list
\* column of the length of the source, with as many nulls as the source has
\* missing entries, whose slot i is missing exactly when the source entry is
\* missing and otherwise holds the values of that sub-column; it never panics.
C4_NestedCollection ==
    (op = "list_opt" /\ ~AllMissing(items)) =>
        /\ pc # "panic"
        /\ pc = "done" =>
              /\ result.status = "ok"
              /\ ca_len(result.ca) = Len(items)
              /\ null_count(result.ca) = MissingCount(items)
              /\ \A i \in 1..Len(items) :
                    Content(result.ca)[i] =
                        IF IsSome(items[i]) THEN Some(Unwrap(items[i]).values) ELSE None

C4_Witness ==
    /\ op = "list_opt" /\ pc = "done"
    /\ Len(items) = 3
    /\ ~IsSome(items[1]) /\ IsSome(items[2]) /\ ~IsSome(items[3])
    /\ null_count(result.ca) = 2

\* the number of elements the length-trusted construction realized
Realized ==
    IF round > 0 THEN Len(vec)
    ELSE IF op \in ParOps THEN Len(into_iter_flatten(nodes[1].segs))
    ELSE Len(items)

\* C5: whenever an array is built through the length-trusted construction and
\* the number of elements realized differs from the declared length, the call
\* ends in the panic of the length assertion and has not gone on unchecked:
\* nothing was written past the declared length; a column that the
\* construction returns has the declared length.
C5_Original ==
    (path = "trusted") =>
        /\ Unwrap(declared) # Realized =>
              (pc = "panic" /\ result.status = "panic" /\ ~result.oob)
        /\ result.status = "ok" => ca_len(result.ca) = Unwrap(declared)

\* a producer that declares one element and yields two: the second element is
\* written past the one allocated slot before the length is compared
C5_Witness ==
    /\ op = "seq_prim" /\ path = "trusted" /\ performant
    /\ hint = <<1, Some(1)>> /\ Len(items) = 2
    /\ pc = "panic" /\ result.oob

\* the same length, the same missing positions and the same values
SameElements(a, b) ==
    /\ ca_len(a) = ca_len(b)
    /\ \A i \in 1..ca_len(a) :
          /\ a.chunks[1].validity[i] = b.chunks[1].validity[i]
          /\ Content(a)[i] = Content(b)[i]

\* C6: for a producer whose size hint is honest, sequential collection gives
\* the same elements whether the array is built by the length-trusted
\* construction (performant build, equal bounds) or by the incremental one
\* (the build without the feature, or bounds that are unequal or absent).
C6_FastEqualsFallback ==
    (op = "seq_prim" /\ round = 0 /\ pc # "start" /\ Honest(items, hint)) =>
        LET other == from_iter_primitive(items, hint, ~performant)
            unequal == from_iter_primitive(items, <<0, None>>, performant)
        IN /\ result.status = "ok" /\ other.status = "ok" /\ unequal.status = "ok"
           /\ SameElements(result.ca, other.ca)
           /\ SameElements(result.ca, unequal.ca)

C6_Witness ==
    /\ op = "seq_prim" /\ round = 0 /\ pc = "done"
    /\ performant /\ path = "trusted" /\ Honest(items, hint)
    /\ items = <<None, Some(1), Some(0)>>

\* C7: a NoNull column returned by the sequential primitive, sequential
\* boolean or parallel primitive entry point has null count 0, the length of
\* the input and the input's values in input order.
C7_NoNullHasNoNulls ==
    (result.nonull /\ result.status = "ok") =>
        /\ op \in {"seq_nonull", "seq_nonull_bool", "par_nonull"}
        /\ null_count(result.ca) = 0
        /\ ca_len(result.ca) = Len(items)
        /\ \A i \in 1..Len(items) : Content(result.ca)[i] = Some(items[i])

C7_Witness ==
    /\ op = "par_nonull" /\ pc = "done" /\ result.nonull
    /\ items = <<1, 0>>
    /\ Len(nodes[1].segs) = 2

\* C8 as stated: the length-trusted construction is applied only to the
\* sequence the core flattens from its own merge result, or to a sequence the
\* caller wrapped in TrustMyLength; never to a caller's sequence on the
\* strength of its own size hint.
C8_Original ==
    (path = "trusted") => trust \in {"core_TrustMyLength", "caller_TrustMyLength"}

\* C8, amended: the parallel primitive collections apply the length-trusted
\* construction to the core's own flattened merge result wrapped in
\* TrustMyLength; sequential collection applies it, in a performant build
\* only, to every caller-supplied sequence whose size hint has equal bounds,
\* wrapped in TrustMyLength or not; no other call applies it.
C8_TrustedOnlyWhenHintExact ==
    /\ (path = "trusted") =>
          \/ op \in {"par_prim", "par_nonull"} /\ round = 0
                /\ trust = "core_TrustMyLength"
          \/ /\ op = "seq_prim" \/ (op \in NumericOps /\ round > 0)
             /\ performant
             /\ trust \in {"size_hint", "caller_TrustMyLength"}
             /\ round = 0 => HintExact(hint)
    /\ (op = "seq_prim" /\ round = 0 /\ pc # "start") =>
          (path = "trusted" <=> (performant /\ HintExact(hint)))

C8_Witness ==
    /\ op = "seq_prim" /\ round = 0 /\ pc = "done"
    /\ path = "trusted" /\ trust = "size_hint" /\ ~adapter
    /\ Len(items) = 2

\* C9: converting a built numeric or boolean column to a Vec<Option<_>> and
\* collecting the Vec again yields a column with the length and, at every
\* index, the value or missing marker of the column the round trip started
\* from; a second round trip yields the same again.
C9_RoundTrip ==
    (op \in NumericOps \cup BoolOps /\ round >= 1 /\ pc \in {"done", "panic"}) =>
        /\ result.status = "ok"
        /\ ca_len(result.ca) = ca_len(orig)
        /\ \A i \in 1..ca_len(orig) : Content(result.ca)[i] = Content(orig)[i]

C9_Witness ==
    /\ op = "par_prim" /\ round = 2 /\ pc = "done"
    /\ Content(orig) = <<None, Some(0)>>

\* C10: a column returned by a sequential or parallel collection of numeric,
\* boolean or text values has exactly one chunk, a length index that holds
\* that chunk's length, a total length equal to the chunk's slots, and the
\* empty name.
C10_SingleChunkEmptyName ==
    (op \notin {"list", "list_opt"} /\ result.status = "ok") =>
        /\ Len(result.ca.chunks) = 1
        /\ result.ca.name = ""
        /\ ca_len(result.ca) = SumSeq(result.ca.chunk_id)
        /\ ca_len(result.ca) = Len(result.ca.chunks[1].validity)
        /\ round = 0 => ca_len(result.ca) = Len(items)

C10_Witness ==
    /\ op = "par_utf8" /\ pc = "done"
    /\ Len(nodes[1].segs) = 3 /\ Len(items) = 2
    /\ Len(result.ca.chunks) = 1

\* C11: collecting an empty input into a numeric, boolean or text column,
\* sequentially or in parallel, raises no panic and returns a column of
\* length 0 with null count 0.
C11_EmptyInputIsValid ==
    (op \notin {"list", "list_opt"} /\ items = <<>> /\ Honest(items, hint) /\ round = 0) =>
        /\ pc # "panic"
        /\ result.status \in {"none", "ok"}
        /\ pc = "done" =>
              /\ result.status = "ok"
              /\ ca_len(result.ca) = 0
              /\ null_count(result.ca) = 0
              /\ Content(result.ca) = <<>>

C11_Witness ==
    /\ op = "par_prim" /\ items = <<>> /\ pc = "done" /\ round = 0
    /\ nodes[1].segs = <<<<>>, <<>>, <<>>>>
    /\ ca_len(result.ca) = 0

\* C12: sequential and parallel collection of non-optional booleans return a
\* column of the length of the input, with null count 0, whose value at every
\* index is the input's.
C12_BooleanCollection ==
    (op \in {"seq_bool", "par_bool"} /\ round = 0) =>
        /\ pc # "panic"
        /\ pc = "done" =>
              /\ result.status = "ok"
              /\ ca_len(result.ca) = Len(items)
              /\ null_count(result.ca) = 0
              /\ \A i \in 1..Len(items) :
                    /\ result.ca.chunks[1].validity[i]
                    /\ result.ca.chunks[1].values[i] = items[i]

C12_Witness ==
    /\ op = "par_bool" /\ pc = "done"
    /\ items = <<TRUE, FALSE>>
    /\ nodes[1].segs = <<<<TRUE>>, <<FALSE>>>>

\* the elements the fold / reduce tree holds, in the order of its frontier:
\* merged segments, folded elements, elements not yet folded
RECURSIVE Held(_)
Held(ns) ==
    IF ns = <<>> THEN <<>>
    ELSE into_iter_flatten(Head(ns).segs) \o Head(ns).vec \o Head(ns).src \o Held(Tail(ns))

\* C13: in parallel collection the capacity summed over the segments of the
\* merged list equals the number of elements the flattened list yields and
\* the number of elements of the source, for every partitioning; the length
\* declared to TrustMyLength is therefore the realized one.
C13_CapacityIsExact ==
    (op \in ParOps /\ Len(nodes) = 1 /\ nodes[1].kind = "list") =>
        LET vectors == nodes[1].segs
        IN /\ get_capacity_from_par_results(vectors) = Len(into_iter_flatten(vectors))
           /\ get_capacity_from_par_results(vectors) = Len(items)
           /\ (op \in {"par_prim", "par_nonull"} /\ pc = "done" /\ round = 0) =>
                 /\ declared = Some(Len(items))
                 /\ ca_len(result.ca) = Unwrap(declared)

C13_Witness ==
    /\ op = "par_nonull" /\ pc = "done"
    /\ Len(nodes[1].segs) = 3 /\ \E j \in 1..3 : nodes[1].segs[j] = <<>>
    /\ Len(items) = 2 /\ declared = Some(2)

\* the buffers of two nodes of the fold / reduce tree are distinct: neither
\* node's position in the tree is the other's or above the other's
Disjoint(a, b) ==
    LET n == IF Len(a.at) < Len(b.at) THEN Len(a.at) ELSE Len(b.at)
    IN SubSeq(a.at, 1, n) # SubSeq(b.at, 1, n)

\* every source element is held by exactly one node, in source order
ExactlyOnce ==
    /\ Held(nodes) = items
    /\ \A i, j \in 1..Len(nodes) : i # j => Disjoint(nodes[i], nodes[j])

\* a step of the fold / reduce tree touches the buffers of one node only; a
\* merge consumes two nodes and leaves one that holds the segments of both
OwnStep ==
    LET n == Len(nodes)
    IN (op \in ParOps /\ nodes' # nodes) =>
          \/ /\ Len(nodes') = n
             /\ \E i \in 1..n : \A j \in 1..n : j # i => nodes'[j] = nodes[j]
          \/ /\ Len(nodes') = n + 1
             /\ \E i \in 1..n :
                   /\ \A j \in 1..(i - 1) : nodes'[j] = nodes[j]
                   /\ \A j \in (i + 1)..n : nodes'[j + 1] = nodes[j]
                   /\ nodes'[i].src \o nodes'[i + 1].src = nodes[i].src
          \/ /\ Len(nodes') = n - 1
             /\ \E i \in 1..(n - 1) :
                   /\ \A j \in 1..(i - 1) : nodes'[j] = nodes[j]
                   /\ \A j \in (i + 2)..n : nodes'[j - 1] = nodes[j]
                   /\ nodes'[i].kind = "list"
                   /\ Len(nodes'[i].segs) = Len(nodes[i].segs) + Len(nodes[i + 1].segs)
                   /\ into_iter_flatten(nodes'[i].segs) =
                         into_iter_flatten(nodes[i].segs) \o into_iter_flatten(nodes[i + 1].segs)

\* C14: during the parallel fold and reduce every buffer belongs to exactly
\* one worker or merge node, a step touches the buffers of one node only, a
\* merge consumes its two inputs and produces one output, and under every
\* interleaving every source element is held exactly once, up to and
\* including the final merged list.
C14_ExclusiveBuffers ==
    /\ [](op \in ParOps => ExactlyOnce)
    /\ [][OwnStep]_vars

C14_Witness ==
    /\ op = "par_utf8" /\ pc = "fold" /\ Len(items) = 2
    /\ Len(nodes) = 3
    /\ nodes[1].kind = "list" /\ nodes[1].segs = <<<<items[1]>>>>
    /\ nodes[2].kind = "fold" /\ nodes[2].vec = <<items[2]>>
    /\ nodes[3].kind = "fold" /\ nodes[3].src = <<>> /\ nodes[3].vec = <<>>

\* the merged lists the reduction holds in the current state, and the empty list
ListsHeld == {nodes[i].segs : i \in {j \in 1..Len(nodes) : nodes[j].kind = "list"}}
                \cup {LinkedList_new}

AppendLaws ==
    /\ \A a, b, c \in ListsHeld :
          list_append(list_append(a, b), c) = list_append(a, list_append(b, c))
    /\ \A a, b \in ListsHeld :
          LET m == list_append(a, b)
          IN /\ Len(m) = Len(a) + Len(b)
             /\ \A i \in 1..Len(a) : m[i] = a[i]
             /\ \A j \in 1..Len(b) : m[Len(a) + j] = b[j]
    /\ \A a \in ListsHeld :
          /\ list_append(LinkedList_new, a) = a
          /\ list_append(a, LinkedList_new) = a

\* the segments the partitions of the current state will have produced once
\* everything is folded and merged: one per partition, in source order
RECURSIVE Segments(_)
Segments(ns) ==
    IF ns = <<>> THEN <<>>
    ELSE (IF Head(ns).kind = "list" THEN Head(ns).segs
          ELSE <<Head(ns).vec \o Head(ns).src>>) \o Segments(Tail(ns))

\* folding and merging, in whatever order, do not change the segments
ShapeFree ==
    (op \in ParOps /\ Len(nodes') <= Len(nodes)) => Segments(nodes') = Segments(nodes)

\* C15: list_append is associative, keeps the segments of its first argument
\* before those of its second, and has the empty list as identity on both
\* sides; the merged list is therefore the partitions' segments in source
\* order, whatever the order of the merges.
C15_ListAppendMonoid ==
    /\ [](op \in ParOps => AppendLaws)
    /\ [][ShapeFree]_vars

C15_Witness ==
    /\ op = "par_prim" /\ pc = "fold" /\ Len(items) = 2
    /\ Len(nodes) = 3 /\ \A i \in 1..3 : nodes[i].kind = "list"
    /\ nodes[1].segs # nodes[3].segs

\* the entries appended to a list builder so far: a missing marker or the
\* values of a sub-column
Appended(b) ==
    [i \in 1..b.arr.len |->
        IF b.arr.validity[i] THEN Some(StrValueAt(b.arr, i)) ELSE None]

\* what the collection appends for one source entry
EntryOf(it) == IF IsSome(it) THEN Some(Unwrap(it).values) ELSE None

\* the index of the first present entry of the source
FirstPresent ==
    CHOOSE p \in 1..Len(items) :
        IsSome(items[p]) /\ \A i \in 1..(p - 1) : ~IsSome(items[i])

Lifecycle ==
    /\ pc = "scan" =>
          /\ builder = NoBuilder /\ owned_v = NoSeries
          /\ cnt = itpos
          /\ \A i \in 1..itpos : ~IsSome(items[i])
    /\ pc \in {"fill", "rest", "done"} =>
          /\ ~AllMissing(items)
          /\ owned_v = Unwrap(items[FirstPresent])
          /\ builder.dtype = owned_v.dtype
          /\ itpos >= FirstPresent
    /\ pc = "fill" =>
          /\ itpos = FirstPresent
          /\ builder.arr.len + cnt = FirstPresent - 1
          /\ \A i \in 1..builder.arr.len : Appended(builder)[i] = None
    /\ pc \in {"rest", "done"} =>
          /\ cnt = 0
          /\ builder.arr.len = itpos
          /\ \A i \in 1..itpos : Appended(builder)[i] = EntryOf(items[i])

\* once the builder exists its element type is fixed and entries are only
\* added at the end, one at a time
BuilderGrows ==
    (op = "list_opt" /\ pc \in {"fill", "rest"}) =>
        /\ builder'.dtype = builder.dtype
        /\ builder'.arr.len \in {builder.arr.len, builder.arr.len + 1}
        /\ \A i \in 1..builder.arr.len : Appended(builder')[i] = Appended(builder)[i]

\* C16: nested collection of optional sub-columns goes through its two phases
\* in order: while scanning, missing entries are only counted and nothing is
\* appended; the builder is created when the first present element is seen,
\* with that element's type; then exactly the counted missing markers are
\* appended, then the first present element, then the remaining entries in
\* source order; the element type never changes once fixed and the counter of
\* pending missing entries is 0 when the remaining entries start.
C16_TwoPhaseLifecycle ==
    /\ [](op = "list_opt" => Lifecycle)
    /\ [][BuilderGrows]_vars

C16_Witness ==
    /\ op = "list_opt" /\ pc = "rest"
    /\ Len(items) = 3 /\ FirstPresent = 3 /\ ~IsSome(items[1])
    /\ itpos = 3 /\ cnt = 0
    /\ Appended(builder) = <<None, None, Some(owned_v.values)>>
    /\ owned_v.dtype = "Int32"

\* The calling thread runs its loops on, and the thread pool runs every
\* partition it was given and every merge whose inputs are ready: a step that
\* stays possible is eventually taken.
FairSpec == Spec /\ WF_vars(Next)

\* the collection has returned a column or ended in a panic
Terminated == pc \in {"done", "panic"}

\* what is left of the nested collection: source entries not yet read (each
\* is read once and at most once more appended as a counted missing marker),
\* counted missing markers not yet appended, and the phases still to go
PhaseRank ==
    CASE pc = "scan" -> 3
      [] pc = "fill" -> 2
      [] pc = "rest" -> 1
      [] OTHER -> 0

ListVariant == 2 * (Len(items) - itpos) + cnt + PhaseRank

LoopsDescend ==
    (op = "list_opt" /\ ~Terminated) => (ListVariant' < ListVariant /\ ListVariant' >= 0)

\* C17: every collection over a finite input terminates: it returns a column
\* or ends in a panic.  The scan loop and the while cnt > 0 loop of nested
\* collection descend on every step, and parallel collection finishes once
\* every partition is folded and every merge is done, under fair scheduling.
C17_Terminates ==
    /\ <>Terminated
    /\ [][LoopsDescend]_vars
    /\ (op \in ParOps) ~> (Collected \/ Terminated)
    /\ Collected ~> Terminated

C17_Witness ==
    /\ op = "list_opt" /\ pc = "done"
    /\ Len(items) = 3 /\ ~IsSome(items[1]) /\ ~IsSome(items[2]) /\ IsSome(items[3])
    /\ cnt = 0 /\ itpos = 3
    /\ result.status = "ok"

\* C18: nested collection of non-optional sub-columns panics on the empty
\* sequence (the first element is unwrapped); for every non-empty sequence S
\* it returns a list column of length |S| with null count 0, whose element
\* type is that of S[1] and whose elements are those of S in order.
C18_ListOfPresent ==
    (op = "list" /\ pc # "start") =>
        /\ items = <<>> => (pc = "panic" /\ result.status = "panic")
        /\ items # <<>> =>
              /\ pc = "done" /\ result.status = "ok"
              /\ ca_len(result.ca) = Len(items)
              /\ null_count(result.ca) = 0
              /\ result.ca.dtype = ListOf(items[1].dtype)
              /\ Content(result.ca) = [i \in 1..Len(items) |-> Some(items[i].values)]

C18_Witness ==
    op = "list" /\ items = <<>> /\ pc = "panic" /\ result = Panic

====
